---- MODULE Spec2Model ----
(***************************************************************************)
(* Batch generation and target loading of keras/data_generator.py.         *)
(*                                                                         *)
(* Two specifications share this module.                                   *)
(*   Spec / FairSpec : one constructed DataGenerator and the generate()    *)
(*                     sequences its callers pull from (lines 123-164).    *)
(*   SpecLoad        : construction of a DataSet or a DataGenerator from a *)
(*                     data source: the target-name check and the target   *)
(*                     loading (lines 14-42, 79-87, 97-131, 198-206).      *)
(* Arrays of samples are modelled by their provenance: row j of features   *)
(* holds the index of the stored sample it was loaded from, and entry k of *)
(* targets holds its own leading-axis index k: for targets stored as       *)
(* [level, sample] that is the row of sample k, for targets stored as      *)
(* [sample] it is SPDT of sample k when k < n_samples and SPDQ of sample   *)
(* k - n_samples otherwise.                                                *)
(***************************************************************************)
EXTENDS Integers, Sequences, FiniteSets, TLC

VARIABLES
    n_samples,      \* self.n_samples
    batch_size,     \* self.batch_size
    shuffle_mode,   \* self.shuffle_mode
    convolution,    \* self.convolution
    features,       \* self.features
    targets,        \* self.targets
    n_batches,      \* self.n_batches
    idxs,           \* self.idxs
    pc,             \* position of each generate() sequence
    shuffle,        \* the shuffle argument of each generate() call
    gen_idxs,       \* the local gen_idxs of each generate() sequence
    i,              \* the loop variable i of each generate() sequence
    hist,           \* the (x, y) pairs each sequence has yielded, in order
    out_file,       \* the data source read at construction (SpecLoad)
    obj             \* the outcome of a constructor call (SpecLoad)

selfVars == <<n_samples, batch_size, shuffle_mode, convolution,
              features, targets, n_batches, idxs>>
genVars  == <<pc, shuffle, gen_idxs, i, hist>>
loadVars == <<out_file, obj>>
vars     == <<n_samples, batch_size, shuffle_mode, convolution,
              features, targets, n_batches, idxs,
              pc, shuffle, gen_idxs, i, hist, out_file, obj>>

---------------------------------------------------------------------------
(* Bounds of the model. *)
MaxSamples == 5
MaxBatch == 2
MaxIdxs == 3
MaxPulls == 3
MaxLoadSamples == 2
MaxLevels == 2

(* The callers that hold a generate() sequence of the same DataGenerator. *)
Gens == {"fit", "validate"}

ShuffleModes == {"batches", "samples"}

---------------------------------------------------------------------------
(* numpy and Python helpers. *)

Min(a, b) == IF a < b THEN a ELSE b
Range(s) == {s[j] : j \in DOMAIN s}

(* np.arange(start, stop, step) for step > 0, start >= 0. *)
Arange(start, stop, step) ==
    LET len == IF stop <= start THEN 0 ELSE ((stop - start) + step - 1) \div step
    IN  [j \in 1..len |-> start + (j - 1) * step]

(* arr[a:b] for 0 <= a <= b: Python clips the window to the array. *)
PySlice(arr, a, b) ==
    LET lo == Min(a, Len(arr))
        hi == Min(b, Len(arr))
    IN  [j \in 1..(hi - lo) |-> arr[lo + j]]

(* arr[index_list]: numpy integer-array indexing (0-based indices). *)
PyTake(arr, index) == [j \in 1..Len(index) |-> arr[index[j] + 1]]

(* The outcomes of np.random.shuffle on a 1-D array. *)
Shuffled(arr) ==
    {[j \in 1..Len(arr) |-> arr[f[j]]] : f \in Permutations(1..Len(arr))}

---------------------------------------------------------------------------
(* DataGenerator.__init__, lines 123-131. *)

NBatchesCeil(n, bs) == (n + bs - 1) \div bs
(* int(n_samples / batch_size) *)
NBatches(n, bs) == n \div bs

BaseIdxs(mode, n, bs) ==
    IF mode = "batches" THEN Arange(0, n, bs) ELSE Arange(0, n, 1)

TargetLayouts == {"sample", "level_sample"}

(* The loaded feature arrays, one row per stored sample (lines 166-196). *)
SampleRows(n) == [j \in 1..n |-> j - 1]
LoadedFeatures(conv, n) ==
    IF conv THEN <<SampleRows(n), SampleRows(n)>> ELSE SampleRows(n)

(* The leading axis of self.targets (lines 198-206): concatenate(axis=0) *)
(* then .T gives n rows for [level, sample] storage, and a flat vector   *)
(* of 2n entries, SPDT then SPDQ, for [sample] storage.                  *)
LoadedTargets(layout, n) ==
    IF layout = "sample" THEN SampleRows(2 * n) ELSE SampleRows(n)

---------------------------------------------------------------------------
(* DataGenerator.generate, lines 133-164. *)

(* The parts of x: the two feature arrays in convolution mode, else one. *)
FeatureSlice(feat, conv, a, b) ==
    IF conv THEN <<PySlice(feat[1], a, b), PySlice(feat[2], a, b)>>
    ELSE PySlice(feat, a, b)
FeatureTake(feat, conv, index) ==
    IF conv THEN <<PyTake(feat[1], index), PyTake(feat[2], index)>>
    ELSE PyTake(feat, index)

(* Lines 143-151: the 'batches' branch. *)
BatchesBatch(feat, targ, gidx, ii, bs, conv) ==
    LET batch_idx == gidx[ii + 1]
    IN  [x |-> FeatureSlice(feat, conv, batch_idx, batch_idx + bs),
         y |-> PySlice(targ, batch_idx, batch_idx + bs)]

(* Lines 153-162: the other branch. It reads self.idxs, not gen_idxs. *)
SamplesBatch(feat, targ, sidx, ii, bs, conv) ==
    LET batch_idx == PyTake(sidx, PySlice(sidx, ii * bs, (ii + 1) * bs))
    IN  [x |-> FeatureTake(feat, conv, batch_idx),
         y |-> PyTake(targ, batch_idx)]

(* The pair the sequence g yields at its current loop position. *)
Batch(g) ==
    IF shuffle_mode = "batches"
    THEN BatchesBatch(features, targets, gen_idxs[g], i[g], batch_size, convolution)
    ELSE SamplesBatch(features, targets, idxs, i[g], batch_size, convolution)

(* A caller calls generate(shuffle): Python builds the generator object *)
(* and runs none of its body yet.                                       *)
Generate(g, sh) ==
    /\ pc[g] = "none"
    /\ pc' = [pc EXCEPT ![g] = "created"]
    /\ shuffle' = [shuffle EXCEPT ![g] = sh]
    /\ UNCHANGED <<selfVars, gen_idxs, i, hist, loadVars>>

StartInPlace(g) ==
    /\ pc[g] = "created"
    /\ \E p \in (IF shuffle[g] THEN Shuffled(idxs) ELSE {idxs}) :
          /\ idxs' = p
          /\ gen_idxs' = [h \in Gens |->
                IF h = g \/ pc[h] \notin {"none", "created"} THEN p ELSE gen_idxs[h]]
    /\ pc' = [pc EXCEPT ![g] = "while"]
    /\ UNCHANGED <<n_samples, batch_size, shuffle_mode, convolution,
                   features, targets, n_batches, shuffle, i, hist, loadVars>>
(* The first pull runs lines 136-138: copy self.idxs, shuffle the copy. *)
Start(g) ==
    /\ pc[g] = "created"
    /\ \E p \in (IF shuffle[g] THEN Shuffled(idxs) ELSE {idxs}) :
          gen_idxs' = [gen_idxs EXCEPT ![g] = p]
    /\ pc' = [pc EXCEPT ![g] = "while"]
    /\ UNCHANGED <<selfVars, shuffle, i, hist, loadVars>>

WhileTopReshuffle(g) ==
    /\ pc[g] = "while"
    /\ i' = [i EXCEPT ![g] = 0]
    /\ pc' = [pc EXCEPT ![g] = "for"]
    /\ \E p \in (IF shuffle[g] THEN Shuffled(gen_idxs[g]) ELSE {gen_idxs[g]}) :
          gen_idxs' = [gen_idxs EXCEPT ![g] = p]
    /\ UNCHANGED <<selfVars, shuffle, hist, loadVars>>
(* Lines 140-141: a turn of `while True` starts the for loop at i = 0. *)
WhileTop(g) ==
    /\ pc[g] = "while"
    /\ i' = [i EXCEPT ![g] = 0]
    /\ pc' = [pc EXCEPT ![g] = "for"]
    /\ UNCHANGED <<selfVars, shuffle, gen_idxs, hist, loadVars>>

(* Lines 141-164: the test of `for i in range(self.n_batches)`; inside the *)
(* range the body builds (x, y) and yields it, past it the while turns.    *)
ForStep(g) ==
    /\ pc[g] = "for"
    /\ IF i[g] < n_batches
       THEN /\ hist' = [hist EXCEPT ![g] = Append(@, Batch(g))]
            /\ pc' = [pc EXCEPT ![g] = "yielded"]
       ELSE /\ pc' = [pc EXCEPT ![g] = "while"]
            /\ UNCHANGED hist
    /\ UNCHANGED <<selfVars, shuffle, gen_idxs, i, loadVars>>

(* The caller pulls again: the generator resumes after the yield and the *)
(* for loop moves to its next i.                                         *)
Resume(g) ==
    /\ pc[g] = "yielded"
    /\ Len(hist[g]) < MaxPulls
    /\ i' = [i EXCEPT ![g] = @ + 1]
    /\ pc' = [pc EXCEPT ![g] = "for"]
    /\ UNCHANGED <<selfVars, shuffle, gen_idxs, hist, loadVars>>

(* The steps the interpreter takes on its own once a pull has begun. *)
Run(g) == WhileTop(g) \/ ForStep(g)

NoObject == [status |-> "none"]

(* The state after DataGenerator.__init__ has returned (lines 106-131), *)
(* on a data source that stores the targets in either layout.          *)
Init ==
    /\ n_samples \in 0..MaxSamples
    /\ batch_size \in 1..MaxBatch
    /\ shuffle_mode \in ShuffleModes
    /\ convolution \in BOOLEAN
    /\ Len(BaseIdxs(shuffle_mode, n_samples, batch_size)) <= MaxIdxs
    /\ out_file \in {[layout |-> l] : l \in TargetLayouts}
    /\ features = LoadedFeatures(convolution, n_samples)
    /\ targets = LoadedTargets(out_file.layout, n_samples)
    /\ n_batches = NBatches(n_samples, batch_size)
    /\ idxs = BaseIdxs(shuffle_mode, n_samples, batch_size)
    /\ pc = [g \in Gens |-> "none"]
    /\ shuffle = [g \in Gens |-> FALSE]
    /\ gen_idxs = [g \in Gens |-> <<>>]
    /\ i = [g \in Gens |-> 0]
    /\ hist = [g \in Gens |-> <<>>]
    /\ obj = NoObject

Next ==
    \/ \E g \in Gens, sh \in BOOLEAN : Generate(g, sh)
    \/ \E g \in Gens : Start(g)
    \/ \E g \in Gens : WhileTop(g)
    \/ \E g \in Gens : ForStep(g)
    \/ \E g \in Gens : Resume(g)

Spec == Init /\ [][Next]_vars

(* Between a pull and its yield the interpreter keeps running the body. *)
FairSpec == Spec /\ \A g \in Gens : WF_vars(Run(g))

---------------------------------------------------------------------------
(* Construction from a data source: DataSet.__init__ (lines 14-42) and  *)
(* DataGenerator.__init__ (lines 97-131), with the target loading both  *)
(* classes carry (lines 79-87 and 198-206).                             *)
(* An array is [ndim |-> 1, v |-> <<values>>] or                        *)
(* [ndim |-> 2, v |-> <<rows>>]; values are integer-valued floats, held  *)
(* in the precision (float32 or float64) of the array.                  *)

TargetScaleT == 1000
TargetScaleQ == 2500000
Float32Exact == 2^24

(* Stored tendencies: small values, whose scaled products every precision *)
(* holds exactly, and values whose products (134219 * 1000 = 134219000,   *)
(* 215 * 2.5e6 = 537500000) are no float32.                               *)
RawStartsT == {-1, 134219}
RawStartsQ == {-1, 215}
RawSteps == {1, -3}
FixedTargetNames == <<"SPDT", "SPDQ">>
TargetNameChoices ==
    {<<"SPDT", "SPDQ">>, <<"SPDQ", "SPDT">>, <<"TPHYSTND", "PHQ">>, <<"SPDT">>}
DTypes == {"float32", "float64"}

(* The float32 nearest to an integer-valued float (ties to even). *)
RECURSIVE UlpFrom(_, _)
UlpFrom(m, u) == IF m \div u < Float32Exact THEN u ELSE UlpFrom(m, 2 * u)
AsFloat32(val) ==
    LET m == IF val < 0 THEN -val ELSE val
        u == UlpFrom(m, 1)
        q == m \div u
        r == m % u
        rounded == IF 2 * r < u \/ (2 * r = u /\ q % 2 = 0)
                   THEN q * u ELSE (q + 1) * u
    IN  IF val < 0 THEN -rounded ELSE rounded

(* A value held in an array of the given precision. *)
InDType(val, dtype) == IF dtype = "float32" THEN AsFloat32(val) ELSE val

(* array * Python float: numpy computes the product in the array's own *)
(* precision (the scalar does not widen a float32 array).              *)
Scale(a, c) ==
    IF a.ndim = 1
    THEN [ndim |-> 1, dtype |-> a.dtype,
          v |-> [j \in DOMAIN a.v |-> InDType(a.v[j] * c, a.dtype)]]
    ELSE [ndim |-> 2, dtype |-> a.dtype,
          v |-> [r \in DOMAIN a.v |->
                   [j \in DOMAIN a.v[r] |-> InDType(a.v[r][j] * c, a.dtype)]]]

(* np.concatenate([a, b], axis=0) *)
Concatenate0(a, b) == [ndim |-> a.ndim, dtype |-> a.dtype, v |-> a.v \o b.v]

(* arr.T: a 1-D array is its own transpose. *)
Transpose(a) ==
    IF a.ndim = 1 THEN a
    ELSE [ndim |-> 2, dtype |-> a.dtype,
          v |-> [c \in DOMAIN a.v[1] |-> [r \in DOMAIN a.v |-> a.v[r][c]]]]

(* np.asarray(a, dtype=dtype) *)
AsArray(a, dtype) ==
    IF a.ndim = 1
    THEN [ndim |-> 1, dtype |-> dtype,
          v |-> [j \in DOMAIN a.v |-> InDType(a.v[j], dtype)]]
    ELSE [ndim |-> 2, dtype |-> dtype,
          v |-> [r \in DOMAIN a.v |->
                   [j \in DOMAIN a.v[r] |-> InDType(a.v[r][j], dtype)]]]

(* DataGenerator.__get_targets, lines 198-206. *)
GetTargets(f) ==
    Transpose(Concatenate0(Scale(f.SPDT, TargetScaleT), Scale(f.SPDQ, TargetScaleQ)))

(* DataSet.__get_targets, lines 79-87: the same, cast to self.dtype. *)
DataSetGetTargets(f, dtype) ==
    AsArray(Transpose(Concatenate0(Scale(f.SPDT, TargetScaleT),
                                   Scale(f.SPDQ, TargetScaleQ))), dtype)

(* DataSet.__init__: the target names are stored and never compared. *)
DataSetInit(target_names, dtype) ==
    /\ obj.status = "none"
    /\ obj' = [status |-> "constructed", cls |-> "DataSet",
               target_names |-> target_names, dtype |-> dtype,
               n_samples |-> out_file.n_samples,
               targets |-> DataSetGetTargets(out_file, dtype)]
    /\ UNCHANGED <<selfVars, genVars, out_file>>

(* DataGenerator.__init__: the assert of line 110 precedes the loading. *)
DataGeneratorInit(bs, target_names, mode) ==
    /\ obj.status = "none"
    /\ IF target_names # FixedTargetNames
       THEN obj' = [status |-> "AssertionError", cls |-> "DataGenerator",
                    target_names |-> target_names]
       ELSE obj' = [status |-> "constructed", cls |-> "DataGenerator",
                    target_names |-> target_names,
                    batch_size |-> bs, shuffle_mode |-> mode,
                    n_samples |-> out_file.n_samples,
                    targets |-> GetTargets(out_file),
                    n_batches |-> NBatches(out_file.n_samples, bs),
                    idxs |-> BaseIdxs(mode, out_file.n_samples, bs)]
    /\ UNCHANGED <<selfVars, genVars, out_file>>

(* The stored forms of a target variable, [sample] or [level, sample], *)
(* in either precision: every cell holds its own value,                *)
(* start + step * (its flat position).                                 *)
RawArrays(layout, levels, n, starts, dtype) ==
    IF layout = "sample"
    THEN {[ndim |-> 1, dtype |-> dtype, v |-> [s \in 1..n |-> a + d * (s - 1)]] :
            a \in starts, d \in RawSteps}
    ELSE {[ndim |-> 2, dtype |-> dtype,
           v |-> [l \in 1..levels |->
                    [s \in 1..n |-> a + d * ((l - 1) * n + (s - 1))]]] :
            a \in starts, d \in RawSteps}

(* A data source on disk and no constructor called yet. *)
InitLoad ==
    /\ \E layout \in TargetLayouts, n \in 1..MaxLoadSamples,
          levels \in 1..MaxLevels :
          /\ layout = "sample" => levels = 1
          /\ \E dt \in DTypes :
              \E t \in RawArrays(layout, levels, n, RawStartsT, dt),
                 q \in RawArrays(layout, levels, n, RawStartsQ, dt) :
                out_file = [layout |-> layout, levels |-> levels, n_samples |-> n,
                            SPDT |-> t, SPDQ |-> q]
    /\ obj = NoObject
    /\ n_samples = 0
    /\ batch_size = 1
    /\ shuffle_mode = "batches"
    /\ convolution = FALSE
    /\ features = <<>>
    /\ targets = <<>>
    /\ n_batches = 0
    /\ idxs = <<>>
    /\ pc = [g \in Gens |-> "none"]
    /\ shuffle = [g \in Gens |-> FALSE]
    /\ gen_idxs = [g \in Gens |-> <<>>]
    /\ i = [g \in Gens |-> 0]
    /\ hist = [g \in Gens |-> <<>>]

NextLoad ==
    \/ \E tn \in TargetNameChoices, dt \in DTypes : DataSetInit(tn, dt)
    \/ \E bs \in 1..MaxBatch, tn \in TargetNameChoices, mode \in ShuffleModes :
          DataGeneratorInit(bs, tn, mode)

SpecLoad == InitLoad /\ [][NextLoad]_vars

---------------------------------------------------------------------------
(* Properties of construction. *)

(* C6: a target-name pair other than ['SPDT', 'SPDQ'] makes construction *)
(* fail with a configuration error: nothing is loaded and no object is   *)
(* constructed, for DataSet and DataGenerator alike.                     *)
C6_OnlyFixedTargetNames ==
    (obj.status # "none" /\ obj.target_names # FixedTargetNames) =>
        /\ obj.status = "AssertionError"
        /\ "targets" \notin DOMAIN obj

(* The raw tendency of 0-based sample s (at the first level, if leveled). *)
RawOf(a, s) == IF a.ndim = 1 THEN a.v[s + 1] ELSE a.v[1][s + 1]

(* C8: the target matrix has n_samples rows, and row s holds *)
(* SPDT of sample s times 1000 in column 0 and SPDQ of sample s times  *)
(* 2.5e6 in column 1, whatever the stored layout.                      *)
C8_TargetColumns ==
    obj.status = "constructed" =>
        /\ obj.targets.ndim = 2
        /\ Len(obj.targets.v) = out_file.n_samples
        /\ \A s \in 0..(out_file.n_samples - 1) :
              /\ obj.targets.v[s + 1][1] = RawOf(out_file.SPDT, s) * 1000
              /\ obj.targets.v[s + 1][2] = RawOf(out_file.SPDQ, s) * 2500000

(* The precision the constructed target array holds its values in: the *)
(* stored one, then for a DataSet the configured one.                   *)
HeldAs(val) ==
    LET stored == InDType(val, out_file.SPDT.dtype)
    IN  IF obj.cls = "DataSet" THEN InDType(stored, obj.dtype) ELSE stored

(* What the constructors build, for comparison with C8: for [level,     *)
(* sample] storage with L levels a matrix of n_samples rows and 2L      *)
(* columns, SPDT*1000 of the L levels then SPDQ*2.5e6 of the L levels;  *)
(* for [sample] storage a flat vector of 2*n_samples entries, SPDT*1000 *)
(* of the samples then SPDQ*2.5e6 of the samples; each value rounded to *)
(* the precision it is held in.                                         *)
TargetsAsBuilt ==
    obj.status = "constructed" =>
        LET t == obj.targets
            n == out_file.n_samples
            L == out_file.levels
        IN  IF out_file.layout = "level_sample"
            THEN /\ t.ndim = 2
                 /\ Len(t.v) = n
                 /\ \A s \in 1..n :
                       /\ Len(t.v[s]) = 2 * L
                       /\ \A l \in 1..L :
                             /\ t.v[s][l] = HeldAs(out_file.SPDT.v[l][s] * 1000)
                             /\ t.v[s][L + l] = HeldAs(out_file.SPDQ.v[l][s] * 2500000)
            ELSE /\ t.ndim = 1
                 /\ Len(t.v) = 2 * n
                 /\ \A s \in 1..n :
                       /\ t.v[s] = HeldAs(out_file.SPDT.v[s] * 1000)
                       /\ t.v[n + s] = HeldAs(out_file.SPDQ.v[s] * 2500000)

---------------------------------------------------------------------------
(* Properties of the generate() sequences. *)

(* The arrays of one yielded pair: the part(s) of x, and y. *)
XParts(b) == IF convolution THEN {b.x[1], b.x[2]} ELSE {b.x}
Arrays(b) == XParts(b) \cup {b.y}

(* The stored sample an entry of targets was loaded from. *)
SampleOfTarget(k) ==
    IF out_file.layout = "sample" /\ k >= n_samples THEN k - n_samples ELSE k

(* The (sequence, pull number) pairs of the pulls that have returned. *)
Pulls == {gk \in Gens \X (1..MaxPulls + 1) : gk[2] <= Len(hist[gk[1]])}

(* The loop position i at which pull number k of a sequence is built. *)
PosOfPull(k) == (k - 1) % n_batches

(* C1: n_batches is floor(n_samples / batch_size); in 'batches' mode the  *)
(* base index set is exactly the n_batches offsets 0, batch_size, ...,    *)
(* (n_batches-1)*batch_size; and no yielded pair holds a remainder sample *)
(* (an index >= n_batches*batch_size).                                    *)
C1_FloorAndNoRemainder ==
    /\ n_batches * batch_size <= n_samples
    /\ n_samples < (n_batches + 1) * batch_size
    /\ shuffle_mode = "batches" =>
          idxs = [j \in 1..n_batches |-> (j - 1) * batch_size]
    /\ \A gk \in Pulls :
          /\ \A a \in XParts(hist[gk[1]][gk[2]]) :
                \A s \in Range(a) : s < n_batches * batch_size
          /\ \A k \in Range(hist[gk[1]][gk[2]].y) :
                SampleOfTarget(k) < n_batches * batch_size

(* C2: every yielded pair holds exactly batch_size samples in each part *)
(* of x and in y.                                                       *)
C2_FullBatches ==
    \A gk \in Pulls : \A a \in Arrays(hist[gk[1]][gk[2]]) :
        Len(a) = batch_size

(* C3: outside 'batches' mode, the pair at position p of a shuffled      *)
(* sequence holds the samples P[p*batch_size .. (p+1)*batch_size - 1] of *)
(* that sequence's own permuted copy P of the index set.                 *)
C3_PermutedSlices ==
    shuffle_mode # "batches" =>
        \A gk \in Pulls :
            LET g == gk[1]
                p == PosOfPull(gk[2])
            IN  shuffle[g] =>
                  \A a \in Arrays(hist[g][gk[2]]) :
                      a = PySlice(gen_idxs[g], p * batch_size, (p + 1) * batch_size)

(* The pull numbers of the complete passes a sequence has yielded. *)
Passes(g) ==
    IF n_batches = 0 THEN {}
    ELSE {q \in 0..MaxPulls : (q + 1) * n_batches <= Len(hist[g])}
PassPulls(q) == (q * n_batches + 1)..((q + 1) * n_batches)
(* No sample index occurs twice among the pairs of pass q of sequence g. *)
PassHasNoDuplicate(g, q) ==
    \A k1, k2 \in PassPulls(q) :
        \A j1 \in DOMAIN hist[g][k1].y, j2 \in DOMAIN hist[g][k2].y :
            hist[g][k1].y[j1] = hist[g][k2].y[j2] => (k1 = k2 /\ j1 = j2)
PassUnion(g, q) == UNION {Range(hist[g][k].y) : k \in PassPulls(q)}

(* C4 as stated: outside 'batches' mode one full pass yields no sample *)
(* index twice and yields every index of 0..n_samples-1.               *)
C4_PassCoversAllSamples ==
    shuffle_mode # "batches" =>
        \A g \in Gens : \A q \in Passes(g) :
            /\ PassHasNoDuplicate(g, q)
            /\ PassUnion(g, q) = 0..(n_samples - 1)

(* C4 as amended: outside 'batches' mode one full pass yields no sample *)
(* index twice and yields n_batches*batch_size distinct indices of      *)
(* 0..n_samples-1, which is the whole range exactly when batch_size     *)
(* divides n_samples.                                                   *)
C4_PassCoversWholeBatches ==
    shuffle_mode # "batches" =>
        \A g \in Gens : \A q \in Passes(g) :
            /\ PassHasNoDuplicate(g, q)
            /\ PassUnion(g, q) \subseteq 0..(n_samples - 1)
            /\ Cardinality(PassUnion(g, q)) = n_batches * batch_size
            /\ (PassUnion(g, q) = 0..(n_samples - 1)) <=>
                  (n_samples % batch_size = 0)
            /\ \A k \in PassPulls(q) : \A a \in XParts(hist[g][k]) :
                  a = hist[g][k].y

C4_Witness ==
    /\ shuffle_mode # "batches"
    /\ n_samples % batch_size # 0
    /\ \E g \in Gens :
          /\ shuffle[g]
          /\ gen_idxs[g] # idxs
          /\ Cardinality(Passes(g)) >= 2

(* C5: once a pull has begun, the sequence eventually yields a pair. *)
C5_EveryPullReturns ==
    \A g \in Gens : (pc[g] \in {"while", "for"}) ~> (pc[g] = "yielded")

(* C7: within one sequence the pair of pull k + n_batches equals the pair *)
(* of pull k, samples and order alike.                                    *)
C7_PassesRepeat ==
    \A gk \in Pulls :
        LET g == gk[1]
            k == gk[2]
        IN  k + n_batches <= Len(hist[g]) => hist[g][k + n_batches] = hist[g][k]

C7_Witness ==
    /\ shuffle_mode = "batches"
    /\ n_batches >= 2
    /\ \E g \in Gens :
          /\ shuffle[g]
          /\ gen_idxs[g] # idxs
          /\ Len(hist[g]) > n_batches
          /\ hist[g][1] # hist[g][2]

(* C9: in 'batches' mode every yielded pair is a contiguous window      *)
(* o, o+1, ... of the stored sample order, o a multiple of batch_size,  *)
(* and every part of x covers the same window as y.                     *)
C9_ContiguousWindows ==
    shuffle_mode = "batches" =>
        \A gk \in Pulls :
            LET b == hist[gk[1]][gk[2]]
            IN  /\ Len(b.y) >= 1
                /\ b.y[1] % batch_size = 0
                /\ \A j \in DOMAIN b.y :
                      SampleOfTarget(b.y[j]) = b.y[1] + (j - 1)
                /\ \A a \in XParts(b) : a = b.y

(* The pair pull k of a sequence yields when it is pulled alone with the *)
(* shuffle draw d, on the generator as constructed.                      *)
SoloBatch(d, k) ==
    LET base == BaseIdxs(shuffle_mode, n_samples, batch_size)
        nb   == n_samples \div batch_size
        feat == LoadedFeatures(convolution, n_samples)
        targ == LoadedTargets(out_file.layout, n_samples)
        p    == (k - 1) % nb
    IN  IF shuffle_mode = "batches"
        THEN [x |-> FeatureSlice(feat, convolution, d[p + 1], d[p + 1] + batch_size),
              y |-> PySlice(targ, d[p + 1], d[p + 1] + batch_size)]
        ELSE [x |-> FeatureTake(feat, convolution,
                      Arange(p * batch_size, (p + 1) * batch_size, 1)),
              y |-> PyTake(targ, Arange(p * batch_size, (p + 1) * batch_size, 1))]

(* C10: generate() leaves the stored index set, n_batches, features and  *)
(* targets as constructed, and whatever the interleaving of pulls, each  *)
(* sequence yields the pairs it yields when pulled alone with its draw.  *)
C10_Reentrant ==
    /\ idxs = BaseIdxs(shuffle_mode, n_samples, batch_size)
    /\ n_batches = n_samples \div batch_size
    /\ features = LoadedFeatures(convolution, n_samples)
    /\ targets = LoadedTargets(out_file.layout, n_samples)
    /\ \A gk \in Pulls :
          hist[gk[1]][gk[2]] = SoloBatch(gen_idxs[gk[1]], gk[2])

C10_Witness ==
    /\ shuffle_mode = "batches"
    /\ n_batches >= 2
    /\ \A g \in Gens : shuffle[g] /\ Len(hist[g]) >= 2
    /\ \E g, h \in Gens : gen_idxs[g] # gen_idxs[h]
    /\ \E g \in Gens : pc[g] \in {"while", "for"}

====
